---- MODULE Spec2Model ----
(***************************************************************************)
(* The Chat view of src/src/pages/Chat.tsx as a state machine.             *)
(*                                                                         *)
(* The view is a single React function component.  Its state is the set of *)
(* useState cells, the interval created by the document-poll effect and    *)
(* the HTTP requests that are in flight.  Every handler runs to its first  *)
(* await in one step (the step that issues the request) and its            *)
(* continuation runs in a second step, when the response is delivered.     *)
(* A handler reads the state cells through the closure of the render in    *)
(* which it was created, so the values it read before the await are stored *)
(* in the request record and used again by the continuation.               *)
(* The effects of lines 257-270 run after every commit that changes their  *)
(* dependency and are part of the step that changes it.                    *)
(***************************************************************************)
EXTENDS Integers, Sequences, FiniteSets, Bags, TLC

\* ---------------------------------------------------------------- bounds
\* user events (clicks, key presses, timer ticks) are accepted only while
\* fewer than MaxInFlight requests are in flight
MaxInFlight == 2
\* sendMessage is accepted only while the thread holds fewer entries
MaxMsgs == 2

\* -------------------------------------------------------------- universe
\* conversationId: number | null; null is modelled by 0 (both are falsy)
Null == 0
ConvIds == {1, 2}
DocIds == {1, 2, 3}
Statuses == {"pending", "processing", "completed", "failed"}

\* strings are sequences of one-character strings
Blank == " "
Inputs == { <<>>, <<Blank>>, <<Blank, "h", "i">> }

\* a removal that rebuilds the list back to front
RECURSIVE Reversed(_)
Reversed(list) ==
    IF list = <<>> THEN <<>> ELSE Append(Reversed(Tail(list)), Head(list))

WithoutId_Reversed(list, id) == Reversed(SelectSeq(list, LAMBDA x : x.id # id))

\* prev.filter((x) => x.id !== id), lines 177 and 198
WithoutId(list, id) == SelectSeq(list, LAMBDA x : x.id # id)

\* String.prototype.trim
RECURSIVE TrimLeft(_)
TrimLeft(s) ==
    IF s # <<>> /\ Head(s) = Blank THEN TrimLeft(Tail(s)) ELSE s

RECURSIVE TrimRight(_)
TrimRight(s) ==
    IF s # <<>> /\ s[Len(s)] = Blank THEN TrimRight(SubSeq(s, 1, Len(s) - 1)) ELSE s

Trim(s) == TrimRight(TrimLeft(s))

\* String.prototype.split(/\s+/): the pieces between maximal runs of blanks;
\* a leading or trailing run leaves an empty piece at that end
RECURSIVE SplitWs(_, _, _)
SplitWs(s, cur, inRun) ==
    IF s = <<>> THEN <<cur>>
    ELSE IF Head(s) = Blank
         THEN IF inRun THEN SplitWs(Tail(s), cur, TRUE)
              ELSE <<cur>> \o SplitWs(Tail(s), <<>>, TRUE)
         ELSE SplitWs(Tail(s), Append(cur, Head(s)), FALSE)

\* Array.prototype.slice(0, n)
Slice(s, n) == SubSeq(s, 1, IF Len(s) < n THEN Len(s) ELSE n)

\* Array.prototype.join(" ")
RECURSIVE Join(_)
Join(ws) ==
    IF ws = <<>> THEN <<>>
    ELSE IF Len(ws) = 1 THEN Head(ws)
         ELSE Head(ws) \o <<Blank>> \o Join(Tail(ws))

TitleWords == 5

\* fetchMessages, lines 124-136: the heading is the first five words of the
\* first user message, or empty
RECURSIVE FirstUser(_)
FirstUser(ms) ==
    IF ms = <<>> THEN <<>>
    ELSE IF Head(ms).role = "user" THEN <<Head(ms)>> ELSE FirstUser(Tail(ms))

TitleOf(ms) ==
    LET f == FirstUser(ms) IN
    IF f # <<>> /\ f[1].content # <<>>
    THEN Join(Slice(SplitWs(f[1].content, <<>>, FALSE), TitleWords))
    ELSE <<>>

\* a Message; sources is optional: <<>> when absent, <<list>> when present
Msg(r, c, src) == [role |-> r, content |-> c, sources |-> src]
UserMsg(text) == Msg("user", text, <<>>)
\* "Error: Could not get response.", line 312
ErrorText ==
    << "E", "r", "r", "o", "r", ":", Blank, "C", "o", "u", "l", "d", Blank,
       "n", "o", "t", Blank, "g", "e", "t", Blank,
       "r", "e", "s", "p", "o", "n", "s", "e", "." >>
ErrorMsg == Msg("assistant", ErrorText, <<>>)

\* what GET /chat/{id}/messages may return for conversation id
History(id) ==
    IF id = 1
    THEN { << UserMsg(<<"a", Blank, "b", Blank, "c", Blank, "d", Blank, "e", Blank, "f">>),
              Msg("assistant", <<"r", "1">>, <<>>) >> }
    ELSE { << Msg("assistant", <<"r", "2">>, << <<"s">> >>) >> }

\* what POST /chat/ may answer: an answer with its sources
Replies == { [answer |-> <<"o", "k">>, sources |-> <<"s">>] }

Conv(i) == [id |-> i]
Doc(i, st) == [id |-> i, status |-> st]

\* the lists GET /chat/conversations may return
ConvLists == { <<Conv(1)>>, <<Conv(2), Conv(1)>> }

\* the lists GET /documents/ may return
DocLists ==
    { <<>> } \cup { <<Doc(1, st)>> : st \in Statuses }
    \cup { <<Doc(3, "completed"), Doc(1, st), Doc(2, "failed")>> :
             st \in {"pending", "completed"} }

\* the smallest answers that still reach every handler
FewConvLists == { <<Conv(1)>> }
FewDocLists == { <<Doc(1, "pending")>>, <<Doc(1, "completed")>> }
FewInputs == { <<Blank, "h", "i">> }

Settled(docs) ==
    \A i \in 1..Len(docs) : docs[i].status \in {"completed", "failed"}

\* ----------------------------------------------------------------- state
VARIABLES
    input,            \* useState, line 47
    messages,         \* line 48
    loading,          \* line 49
    conversationId,   \* line 50
    chatTitle,        \* line 51
    conversations,    \* line 52
    documents,        \* line 53
    isDriveConnected, \* line 61
    syncing,          \* line 62
    intervals,        \* the setInterval timers alive, each the conversationId
                      \* its fetchDocuments closure reads (line 267)
    net,              \* bag of the requests in flight
    out,              \* what the last step showed: alert() text, console.error text
    serverSettled,    \* the server reports no document pending or processing any more
    convResp,         \* the last response applied to conversations
    docResp,          \* the last response applied to documents
    docScope,         \* the conversationId that response was requested for
    selected          \* the conversation row clicked last (Null: none yet)

vars == << input, messages, loading, conversationId, chatTitle, conversations,
           documents, isDriveConnected, syncing, intervals, net, out,
           serverSettled, convResp, docResp, docScope, selected >>

Quiet == [alert |-> "", log |-> ""]
Alert(a, l) == [alert |-> a, log |-> l]
Log(l) == [alert |-> "", log |-> l]

Put(b, r) == b (+) SetToBag({r})
Take(b, r) == b (-) SetToBag({r})
InFlight == BagToSet(net)
OfKind(k) == { r \in InFlight : r.kind = k }
Room == BagCardinality(net) < MaxInFlight

\* fetchDocuments, lines 97-106, called from a render whose conversationId is c
DocsReq(c) == [kind |-> "documents", conv |-> c, early |-> ~serverSettled]
ConvsReq == [kind |-> "conversations"]
UserReq == [kind |-> "user"]

\* a test that takes every document that is not completed for unfinished
HasPending_NotCompleted(docs) ==
    \E i \in 1..Len(docs) : docs[i].status # "completed"

\* documents.some(...), lines 262-264
HasPending(docs) ==
    \E i \in 1..Len(docs) : docs[i].status \in {"pending", "processing"}

\* a poll effect that returns no cleanup: the old interval is never cleared
PollEffect_NoCleanup(ivs, docs, conv) ==
    IF HasPending(docs) THEN Append(ivs, conv) ELSE ivs

\* the effect of lines 261-270, run after a commit that changed documents:
\* the cleanup of the previous run clears the interval that run created, then
\* a new interval is created when a document is pending or processing; its
\* callback is the fetchDocuments of the render, which reads conv
PollEffect(ivs, docs, conv) ==
    LET cleared == IF ivs # <<>> THEN SubSeq(ivs, 1, Len(ivs) - 1) ELSE ivs
    IN  IF HasPending(docs) THEN Append(cleared, conv) ELSE cleared

\* the effect of lines 257-259, run after a commit: fetchDocuments is called
\* when conversationId changed
ConvEffect(b, old, new) ==
    IF new # old THEN Put(b, DocsReq(new)) ELSE b

\* the state after mount: the effects of lines 252-270 have run once
Init ==
    /\ input = <<>>
    /\ messages = <<>>
    /\ loading = FALSE
    /\ conversationId = Null
    /\ chatTitle = <<>>
    /\ conversations = <<>>
    /\ documents = <<>>
    /\ isDriveConnected = FALSE
    /\ syncing = FALSE
    /\ intervals = PollEffect(<<>>, <<>>, Null)
    /\ net = Put(Put(Put(EmptyBag, ConvsReq), UserReq),
                 [kind |-> "documents", conv |-> Null, early |-> TRUE])
    /\ out = Quiet
    /\ serverSettled = FALSE
    /\ convResp = <<>>
    /\ docResp = <<>>
    /\ docScope = Null
    /\ selected = Null

\* ------------------------------------------------------------ the fetches
\* fetchUser, lines 70-80
UserOk(r, connected) ==
    /\ r.kind = "user"
    /\ isDriveConnected' = connected
    /\ net' = Take(net, r)
    /\ out' = Quiet
    /\ UNCHANGED << input, messages, loading, conversationId, chatTitle,
                    conversations, documents, syncing, intervals,
                    serverSettled, convResp, docResp, docScope, selected >>

UserFail(r) ==
    /\ r.kind = "user"
    /\ net' = Take(net, r)
    /\ out' = Log("Failed to fetch user")
    /\ UNCHANGED << input, messages, loading, conversationId, chatTitle,
                    conversations, documents, isDriveConnected, syncing,
                    intervals, serverSettled, convResp, docResp, docScope, selected >>

\* fetchConversations, lines 82-95
ConversationsOk(r, data) ==
    /\ r.kind = "conversations"
    /\ conversations' = data
    /\ convResp' = data
    /\ net' = Take(net, r)
    /\ out' = Quiet
    /\ UNCHANGED << input, messages, loading, conversationId, chatTitle,
                    documents, isDriveConnected, syncing, intervals,
                    serverSettled, docResp, docScope, selected >>

ConversationsFail(r) ==
    /\ r.kind = "conversations"
    /\ net' = Take(net, r)
    /\ out' = Log("Failed to fetch conversations")
    /\ UNCHANGED << input, messages, loading, conversationId, chatTitle,
                    conversations, documents, isDriveConnected, syncing,
                    intervals, serverSettled, convResp, docResp, docScope, selected >>

\* fetchDocuments, lines 97-111; a request made after the server settled is
\* answered with settled documents only
DocumentsOk(r, data) ==
    /\ r.kind = "documents"
    /\ r.early \/ Settled(data)
    /\ documents' = data
    /\ docResp' = data
    /\ docScope' = r.conv
    /\ intervals' = PollEffect(intervals, data, conversationId)
    /\ net' = Take(net, r)
    /\ out' = Quiet
    /\ UNCHANGED << input, messages, loading, conversationId, chatTitle,
                    conversations, isDriveConnected, syncing, serverSettled,
                    convResp, selected >>

DocumentsFail(r) ==
    /\ r.kind = "documents"
    /\ net' = Take(net, r)
    /\ out' = Log("Failed to fetch documents")
    /\ UNCHANGED << input, messages, loading, conversationId, chatTitle,
                    conversations, documents, isDriveConnected, syncing,
                    intervals, serverSettled, convResp, docResp, docScope, selected >>

\* the interval of line 267 fires: the fetchDocuments it holds is called
Tick ==
    /\ intervals # <<>>
    /\ Room
    /\ \E i \in 1..Len(intervals) : net' = Put(net, DocsReq(intervals[i]))
    /\ out' = Quiet
    /\ UNCHANGED << input, messages, loading, conversationId, chatTitle,
                    conversations, documents, isDriveConnected, syncing,
                    intervals, serverSettled, convResp, docResp, docScope, selected >>

\* FileUpload reports a finished upload: onUploadSuccess, line 593
UploadSuccess ==
    /\ Room
    /\ net' = Put(net, DocsReq(conversationId))
    /\ out' = Quiet
    /\ UNCHANGED << input, messages, loading, conversationId, chatTitle,
                    conversations, documents, isDriveConnected, syncing,
                    intervals, serverSettled, convResp, docResp, docScope, selected >>

\* the server side: from now on no document is pending or processing
Settle ==
    /\ ~serverSettled
    /\ serverSettled' = TRUE
    /\ out' = Quiet
    /\ UNCHANGED << input, messages, loading, conversationId, chatTitle,
                    conversations, documents, isDriveConnected, syncing,
                    intervals, net, convResp, docResp, docScope, selected >>

\* -------------------------------------------------------- the message thread
\* a row of the conversation list is clicked: fetchMessages(conv.id), line 456
SelectConversation(id) ==
    /\ Room
    /\ \E i \in 1..Len(conversations) : conversations[i].id = id
    /\ net' = Put(net, [kind |-> "messages", id |-> id])
    /\ selected' = id
    /\ out' = Quiet
    /\ UNCHANGED << input, messages, loading, conversationId, chatTitle,
                    conversations, documents, isDriveConnected, syncing,
                    intervals, serverSettled, convResp, docResp, docScope >>

\* a fetchMessages that does not call setConversationId
MessagesOk_KeepsId(r, data) ==
    /\ r.kind = "messages"
    /\ messages' = data
    /\ chatTitle' = TitleOf(data)
    /\ net' = Take(net, r)
    /\ out' = Quiet
    /\ UNCHANGED << input, loading, conversationId, conversations, documents,
                    isDriveConnected, syncing, intervals, serverSettled,
                    convResp, docResp, docScope, selected >>

\* fetchMessages after the await, lines 122-136
MessagesOk(r, data) ==
    /\ r.kind = "messages"
    /\ messages' = data
    /\ conversationId' = r.id
    /\ chatTitle' = TitleOf(data)
    /\ net' = ConvEffect(Take(net, r), conversationId, r.id)
    /\ out' = Quiet
    /\ UNCHANGED << input, loading, conversations, documents, isDriveConnected,
                    syncing, intervals, serverSettled, convResp, docResp, docScope, selected >>

\* a fetchMessages whose catch empties the thread
MessagesFail_Clears(r) ==
    /\ r.kind = "messages"
    /\ messages' = <<>>
    /\ net' = Take(net, r)
    /\ out' = Log("Failed to fetch messages")
    /\ UNCHANGED << input, loading, conversationId, chatTitle,
                    conversations, documents, isDriveConnected, syncing,
                    intervals, serverSettled, convResp, docResp, docScope, selected >>

\* fetchMessages, lines 137-139
MessagesFail(r) ==
    /\ r.kind = "messages"
    /\ net' = Take(net, r)
    /\ out' = Log("Failed to fetch messages")
    /\ UNCHANGED << input, messages, loading, conversationId, chatTitle,
                    conversations, documents, isDriveConnected, syncing,
                    intervals, serverSettled, convResp, docResp, docScope, selected >>

\* the New Chat button, lines 344-349
NewChat ==
    /\ conversationId' = Null
    /\ messages' = <<>>
    /\ chatTitle' = <<>>
    /\ net' = ConvEffect(net, conversationId, Null)
    /\ out' = Quiet
    /\ UNCHANGED << input, loading, conversations, documents, isDriveConnected,
                    syncing, intervals, serverSettled, convResp, docResp, docScope, selected >>

\* the input's onChange, line 600
SetInput(text) ==
    /\ text # input
    /\ input' = text
    /\ out' = Quiet
    /\ UNCHANGED << messages, loading, conversationId, chatTitle, conversations,
                    documents, isDriveConnected, syncing, intervals, net,
                    serverSettled, convResp, docResp, docScope, selected >>

\* a sendMessage that returns early on the empty string only
SendMessage_NoTrim(button) ==
    /\ button => ~loading /\ Trim(input) # <<>>
    /\ IF input = <<>>
       THEN UNCHANGED << input, messages, loading, net >>
       ELSE /\ Room
            /\ Len(messages) < MaxMsgs
            /\ messages' = Append(messages, UserMsg(input))
            /\ input' = <<>>
            /\ loading' = TRUE
            /\ net' = Put(net, [kind |-> "chat", query |-> input,
                                 conv |-> conversationId])
    /\ out' = Quiet
    /\ UNCHANGED << conversationId, chatTitle, conversations, documents,
                    isDriveConnected, syncing, intervals, serverSettled,
                    convResp, docResp, docScope, selected >>

\* sendMessage up to its await, lines 272-291; button is TRUE for a click on
\* the send button (disabled while loading or blank, line 609) and FALSE for
\* the Enter key (line 601), which calls sendMessage whatever loading is
SendMessage(button) ==
    /\ button => ~loading /\ Trim(input) # <<>>
    /\ IF Trim(input) = <<>>
       THEN UNCHANGED << input, messages, loading, net >>
       ELSE /\ Room
            /\ Len(messages) < MaxMsgs
            /\ messages' = Append(messages, UserMsg(input))
            /\ input' = <<>>
            /\ loading' = TRUE
            /\ net' = Put(net, [kind |-> "chat", query |-> input,
                                 conv |-> conversationId])
    /\ out' = Quiet
    /\ UNCHANGED << conversationId, chatTitle, conversations, documents,
                    isDriveConnected, syncing, intervals, serverSettled,
                    convResp, docResp, docScope, selected >>

\* a sendMessage that refetches the conversations whenever the response
\* carries a conversation_id
ChatOk_AlwaysRefetch(r, reply, cid) ==
    /\ r.kind = "chat"
    /\ messages' = Append(messages, Msg("assistant", reply.answer, <<reply.sources>>))
    /\ conversationId' = IF cid # Null THEN cid ELSE conversationId
    /\ net' = LET rest == Take(net, r)
                  more == IF cid # Null THEN Put(rest, ConvsReq) ELSE rest
              IN  ConvEffect(more, conversationId, conversationId')
    /\ loading' = FALSE
    /\ out' = Quiet
    /\ UNCHANGED << input, chatTitle, conversations, documents, isDriveConnected,
                    syncing, intervals, serverSettled, convResp, docResp, docScope, selected >>

\* sendMessage after the await, lines 293-305 and 315-317; cid is the
\* conversation_id of the response (Null when it carries none)
ChatOk(r, reply, cid) ==
    /\ r.kind = "chat"
    /\ messages' = Append(messages, Msg("assistant", reply.answer, <<reply.sources>>))
    /\ conversationId' = IF cid # Null THEN cid ELSE conversationId
    /\ net' = LET rest == Take(net, r)
                  more == IF cid # Null /\ r.conv = Null
                          THEN Put(rest, ConvsReq) ELSE rest
              IN  ConvEffect(more, conversationId, conversationId')
    /\ loading' = FALSE
    /\ out' = Quiet
    /\ UNCHANGED << input, chatTitle, conversations, documents, isDriveConnected,
                    syncing, intervals, serverSettled, convResp, docResp, docScope, selected >>

\* a sendMessage whose setLoading(false) sits at the end of the try block
ChatFail_StaysLoading(r) ==
    /\ r.kind = "chat"
    /\ messages' = Append(messages, ErrorMsg)
    /\ net' = Take(net, r)
    /\ out' = Log("Chat error")
    /\ UNCHANGED << input, loading, conversationId, chatTitle, conversations,
                    documents, isDriveConnected, syncing, intervals,
                    serverSettled, convResp, docResp, docScope, selected >>

\* sendMessage, lines 306-317
ChatFail(r) ==
    /\ r.kind = "chat"
    /\ messages' = Append(messages, ErrorMsg)
    /\ loading' = FALSE
    /\ net' = Take(net, r)
    /\ out' = Log("Chat error")
    /\ UNCHANGED << input, conversationId, chatTitle, conversations, documents,
                    isDriveConnected, syncing, intervals, serverSettled,
                    convResp, docResp, docScope, selected >>

\* the conversation_id a response to request r may carry: the conversation
\* the message was sent to, a new one for a new chat, or none
ChatIds(r) == IF r.conv = Null THEN ConvIds \cup {Null} ELSE {r.conv, Null}

\* ---------------------------------------------------------------- deletes
Shown(list, id) == \E i \in 1..Len(list) : list[i].id = id

\* handleDeleteDocument up to its await, lines 167-175; confirmed is the
\* answer to confirm()
DeleteDocument(id, confirmed) ==
    /\ Shown(documents, id)
    /\ IF confirmed
       THEN /\ Room
            /\ net' = Put(net, [kind |-> "deleteDoc", id |-> id,
                                 conv |-> conversationId])
       ELSE UNCHANGED net
    /\ out' = Quiet
    /\ UNCHANGED << input, messages, loading, conversationId, chatTitle,
                    conversations, documents, isDriveConnected, syncing,
                    intervals, serverSettled, convResp, docResp, docScope, selected >>

\* handleDeleteDocument after the await, lines 176-177
DeleteDocumentOk(r) ==
    /\ r.kind = "deleteDoc"
    /\ documents' = WithoutId(documents, r.id)
    /\ intervals' = PollEffect(intervals, documents', conversationId)
    /\ net' = Take(net, r)
    /\ out' = Quiet
    /\ UNCHANGED << input, messages, loading, conversationId, chatTitle,
                    conversations, isDriveConnected, syncing, serverSettled,
                    convResp, docResp, docScope, selected >>

\* a catch branch that alerts and does not refetch
DeleteDocumentFail_NoRefetch(r) ==
    /\ r.kind = "deleteDoc"
    /\ net' = Take(net, r)
    /\ out' = Alert("Failed to delete document", "Failed to delete document")
    /\ UNCHANGED << input, messages, loading, conversationId, chatTitle,
                    conversations, documents, isDriveConnected, syncing,
                    intervals, serverSettled, convResp, docResp, docScope, selected >>

\* handleDeleteDocument, lines 178-182: the fetchDocuments called is the one
\* of the render in which the button was clicked
DeleteDocumentFail(r) ==
    /\ r.kind = "deleteDoc"
    /\ net' = Put(Take(net, r), DocsReq(r.conv))
    /\ out' = Alert("Failed to delete document", "Failed to delete document")
    /\ UNCHANGED << input, messages, loading, conversationId, chatTitle,
                    conversations, documents, isDriveConnected, syncing,
                    intervals, serverSettled, convResp, docResp, docScope, selected >>

\* handleDeleteConversation up to its await, lines 185-196
DeleteConversation(id, confirmed) ==
    /\ Shown(conversations, id)
    /\ IF confirmed
       THEN /\ Room
            /\ net' = Put(net, [kind |-> "deleteConv", id |-> id,
                                 conv |-> conversationId])
       ELSE UNCHANGED net
    /\ out' = Quiet
    /\ UNCHANGED << input, messages, loading, conversationId, chatTitle,
                    conversations, documents, isDriveConnected, syncing,
                    intervals, serverSettled, convResp, docResp, docScope, selected >>

\* handleDeleteConversation after the await, lines 197-204: conversationId is
\* the one of the render in which the button was clicked
DeleteConversationOk(r) ==
    /\ r.kind = "deleteConv"
    /\ conversations' = WithoutId(conversations, r.id)
    /\ IF r.conv = r.id
       THEN /\ conversationId' = Null
            /\ messages' = <<>>
            /\ chatTitle' = <<>>
       ELSE UNCHANGED << conversationId, messages, chatTitle >>
    /\ net' = ConvEffect(Take(net, r), conversationId, conversationId')
    /\ out' = Quiet
    /\ UNCHANGED << input, loading, documents, isDriveConnected, syncing,
                    intervals, serverSettled, convResp, docResp, docScope, selected >>

\* handleDeleteConversation, lines 205-209
DeleteConversationFail(r) ==
    /\ r.kind = "deleteConv"
    /\ net' = Put(Take(net, r), ConvsReq)
    /\ out' = Alert("Failed to delete conversation", "Failed to delete conversation")
    /\ UNCHANGED << input, messages, loading, conversationId, chatTitle,
                    conversations, documents, isDriveConnected, syncing,
                    intervals, serverSettled, convResp, docResp, docScope, selected >>

\* ----------------------------------------------------------- integrations
\* the Connect Google button (line 362) and a finished consent: onSuccess up
\* to its await, lines 143-155
ConnectDrive ==
    /\ ~isDriveConnected
    /\ Room
    /\ net' = Put(net, [kind |-> "connect"])
    /\ out' = Quiet
    /\ UNCHANGED << input, messages, loading, conversationId, chatTitle,
                    conversations, documents, isDriveConnected, syncing,
                    intervals, serverSettled, convResp, docResp, docScope, selected >>

\* lines 156-157
ConnectOk(r) ==
    /\ r.kind = "connect"
    /\ isDriveConnected' = TRUE
    /\ net' = Take(net, r)
    /\ out' = Alert("Google Drive connected!", "")
    /\ UNCHANGED << input, messages, loading, conversationId, chatTitle,
                    conversations, documents, syncing, intervals,
                    serverSettled, convResp, docResp, docScope, selected >>

\* a catch branch that logs and raises no alert
ConnectFail_Silent(r) ==
    /\ r.kind = "connect"
    /\ net' = Take(net, r)
    /\ out' = Log("Failed to connect drive")
    /\ UNCHANGED << input, messages, loading, conversationId, chatTitle,
                    conversations, documents, isDriveConnected, syncing,
                    intervals, serverSettled, convResp, docResp, docScope, selected >>

\* lines 158-161
ConnectFail(r) ==
    /\ r.kind = "connect"
    /\ net' = Take(net, r)
    /\ out' = Alert("Failed to connect Google Drive", "Failed to connect drive")
    /\ UNCHANGED << input, messages, loading, conversationId, chatTitle,
                    conversations, documents, isDriveConnected, syncing,
                    intervals, serverSettled, convResp, docResp, docScope, selected >>

\* sync buttons that stay enabled while a sync is running
Sync_NotDisabled(which) ==
    /\ isDriveConnected
    /\ Room
    /\ syncing' = TRUE
    /\ net' = Put(net, [kind |-> which])
    /\ out' = Quiet
    /\ UNCHANGED << input, messages, loading, conversationId, chatTitle,
                    conversations, documents, isDriveConnected, intervals,
                    serverSettled, convResp, docResp, docScope, selected >>

\* syncDrive (lines 212-222) and syncCalendar (lines 232-242) up to the
\* await; both buttons are rendered when the drive is connected and are
\* disabled while syncing (lines 372-392)
Sync(which) ==
    /\ isDriveConnected
    /\ ~syncing
    /\ Room
    /\ syncing' = TRUE
    /\ net' = Put(net, [kind |-> which])
    /\ out' = Quiet
    /\ UNCHANGED << input, messages, loading, conversationId, chatTitle,
                    conversations, documents, isDriveConnected, intervals,
                    serverSettled, convResp, docResp, docScope, selected >>

\* lines 223 and 227-229, 243 and 247-249
SyncOk(r) ==
    /\ r.kind \in {"syncDrive", "syncCalendar"}
    /\ syncing' = FALSE
    /\ net' = Take(net, r)
    /\ out' = Alert("res.data.message", "")
    /\ UNCHANGED << input, messages, loading, conversationId, chatTitle,
                    conversations, documents, isDriveConnected, intervals,
                    serverSettled, convResp, docResp, docScope, selected >>

\* lines 224-229, 244-249
SyncFail(r) ==
    /\ r.kind \in {"syncDrive", "syncCalendar"}
    /\ syncing' = FALSE
    /\ net' = Take(net, r)
    /\ out' = IF r.kind = "syncDrive"
              THEN Alert("Sync failed", "Sync failed")
              ELSE Alert("Calendar Sync failed", "Calendar Sync failed")
    /\ UNCHANGED << input, messages, loading, conversationId, chatTitle,
                    conversations, documents, isDriveConnected, intervals,
                    serverSettled, convResp, docResp, docScope, selected >>

\* ------------------------------------------------------------------- steps
\* Next is the whole view: every handler, with every answer of the server.
\* Its state space is the product of the three areas of the view (thread,
\* lists, integrations) and is too large to enumerate, so the claims are
\* checked on the relations below.  Each keeps every handler that writes a
\* variable its claims read; the requests of the handlers left out are
\* answered with the smallest answer, so that they leave the bag.
Next ==
    \/ \E r \in OfKind("user") : \E b \in BOOLEAN : UserOk(r, b)
    \/ \E r \in OfKind("user") : UserFail(r)
    \/ \E r \in OfKind("conversations") : \E data \in ConvLists :
          ConversationsOk(r, data)
    \/ \E r \in OfKind("conversations") : ConversationsFail(r)
    \/ \E r \in OfKind("documents") : \E data \in DocLists : DocumentsOk(r, data)
    \/ \E r \in OfKind("documents") : DocumentsFail(r)
    \/ Tick
    \/ UploadSuccess
    \/ Settle
    \/ \E id \in ConvIds : SelectConversation(id)
    \/ \E r \in OfKind("messages") : \E data \in History(r.id) : MessagesOk(r, data)
    \/ \E r \in OfKind("messages") : MessagesFail(r)
    \/ NewChat
    \/ \E text \in Inputs : SetInput(text)
    \/ \E button \in BOOLEAN : SendMessage(button)
    \/ \E r \in OfKind("chat") : \E reply \in Replies : \E cid \in ChatIds(r) :
          ChatOk(r, reply, cid)
    \/ \E r \in OfKind("chat") : ChatFail(r)
    \/ \E id \in DocIds : \E c \in BOOLEAN : DeleteDocument(id, c)
    \/ \E r \in OfKind("deleteDoc") : DeleteDocumentOk(r)
    \/ \E r \in OfKind("deleteDoc") : DeleteDocumentFail(r)
    \/ \E id \in ConvIds : \E c \in BOOLEAN : DeleteConversation(id, c)
    \/ \E r \in OfKind("deleteConv") : DeleteConversationOk(r)
    \/ \E r \in OfKind("deleteConv") : DeleteConversationFail(r)
    \/ ConnectDrive
    \/ \E r \in OfKind("connect") : ConnectOk(r)
    \/ \E r \in OfKind("connect") : ConnectFail(r)
    \/ \E which \in {"syncDrive", "syncCalendar"} : Sync(which)
    \/ \E r \in OfKind("syncDrive") \cup OfKind("syncCalendar") : SyncOk(r)
    \/ \E r \in OfKind("syncDrive") \cup OfKind("syncCalendar") : SyncFail(r)

Spec == Init /\ [][Next]_vars

\* every kind of request, each answered or failing, with the smallest answers
NextRequests ==
    \/ \E r \in OfKind("user") : UserOk(r, FALSE)
    \/ \E r \in OfKind("user") : UserFail(r)
    \/ \E r \in OfKind("conversations") : \E data \in FewConvLists :
          ConversationsOk(r, data)
    \/ \E r \in OfKind("conversations") : ConversationsFail(r)
    \/ \E r \in OfKind("documents") : DocumentsOk(r, <<Doc(1, "completed")>>)
    \/ \E r \in OfKind("documents") : DocumentsFail(r)
    \/ \E id \in ConvIds : SelectConversation(id)
    \/ \E r \in OfKind("messages") : MessagesOk(r, <<>>)
    \/ \E r \in OfKind("messages") : MessagesFail(r)
    \/ \E text \in FewInputs : SetInput(text)
    \/ \E button \in BOOLEAN : SendMessage(button)
    \/ \E r \in OfKind("chat") : \E reply \in Replies : ChatOk(r, reply, Null)
    \/ \E r \in OfKind("chat") : ChatFail(r)
    \/ \E id \in DocIds : \E c \in BOOLEAN : DeleteDocument(id, c)
    \/ \E r \in OfKind("deleteDoc") : DeleteDocumentOk(r)
    \/ \E r \in OfKind("deleteDoc") : DeleteDocumentFail(r)
    \/ \E id \in ConvIds : \E c \in BOOLEAN : DeleteConversation(id, c)
    \/ \E r \in OfKind("deleteConv") : DeleteConversationOk(r)
    \/ \E r \in OfKind("deleteConv") : DeleteConversationFail(r)
    \/ ConnectDrive
    \/ \E r \in OfKind("connect") : ConnectOk(r)
    \/ \E r \in OfKind("connect") : ConnectFail(r)
    \/ \E which \in {"syncDrive", "syncCalendar"} : Sync(which)
    \/ \E r \in OfKind("syncDrive") \cup OfKind("syncCalendar") : SyncOk(r)
    \/ \E r \in OfKind("syncDrive") \cup OfKind("syncCalendar") : SyncFail(r)

SpecRequests == Init /\ [][NextRequests]_vars

\* the message thread: selecting, starting anew, sending.  A successful
\* delete of the conversation on screen resets the thread exactly as NewChat
\* does; the deletes themselves are in NextConvs.
NextThread ==
    \/ \E r \in OfKind("user") : UserOk(r, FALSE)
    \/ \E r \in OfKind("documents") : DocumentsOk(r, <<>>)
    \/ \E r \in OfKind("conversations") : \E data \in ConvLists :
          ConversationsOk(r, data)
    \/ \E r \in OfKind("conversations") : ConversationsFail(r)
    \/ \E id \in ConvIds : SelectConversation(id)
    \/ \E r \in OfKind("messages") : \E data \in History(r.id) : MessagesOk(r, data)
    \/ \E r \in OfKind("messages") : MessagesFail(r)
    \/ NewChat
    \/ \E text \in Inputs : SetInput(text)
    \/ \E button \in BOOLEAN : SendMessage(button)
    \/ \E r \in OfKind("chat") : \E reply \in Replies : \E cid \in ChatIds(r) :
          ChatOk(r, reply, cid)
    \/ \E r \in OfKind("chat") : ChatFail(r)

SpecThread == Init /\ [][NextThread]_vars

\* the document list and the conversation list: fetches and deletes, with
\* no conversation open
NextLists ==
    \/ \E r \in OfKind("user") : UserOk(r, FALSE)
    \/ \E r \in OfKind("conversations") : \E data \in ConvLists :
          ConversationsOk(r, data)
    \/ \E r \in OfKind("conversations") : ConversationsFail(r)
    \/ \E r \in OfKind("documents") : \E data \in DocLists : DocumentsOk(r, data)
    \/ \E r \in OfKind("documents") : DocumentsFail(r)
    \/ \E id \in DocIds : \E c \in BOOLEAN : DeleteDocument(id, c)
    \/ \E r \in OfKind("deleteDoc") : DeleteDocumentOk(r)
    \/ \E r \in OfKind("deleteDoc") : DeleteDocumentFail(r)
    \/ \E id \in ConvIds : \E c \in BOOLEAN : DeleteConversation(id, c)
    \/ \E r \in OfKind("deleteConv") : DeleteConversationOk(r)
    \/ \E r \in OfKind("deleteConv") : DeleteConversationFail(r)

SpecLists == Init /\ [][NextLists]_vars

\* the conversation list and the conversation on screen: selecting, starting
\* anew, deleting
NextConvs ==
    \/ \E r \in OfKind("user") : UserOk(r, FALSE)
    \/ \E r \in OfKind("documents") : DocumentsOk(r, <<>>)
    \/ \E r \in OfKind("conversations") : \E data \in ConvLists :
          ConversationsOk(r, data)
    \/ \E r \in OfKind("conversations") : ConversationsFail(r)
    \/ \E id \in ConvIds : SelectConversation(id)
    \/ \E r \in OfKind("messages") : \E data \in History(r.id) : MessagesOk(r, data)
    \/ NewChat
    \/ \E id \in ConvIds : \E c \in BOOLEAN : DeleteConversation(id, c)
    \/ \E r \in OfKind("deleteConv") : DeleteConversationOk(r)
    \/ \E r \in OfKind("deleteConv") : DeleteConversationFail(r)

SpecConvs == Init /\ [][NextConvs]_vars

\* the integrations panel: connecting the drive and the two syncs, beside the
\* fetches of the mount
NextSync ==
    \/ \E r \in OfKind("user") : \E b \in BOOLEAN : UserOk(r, b)
    \/ \E r \in OfKind("user") : UserFail(r)
    \/ \E r \in OfKind("conversations") : \E data \in FewConvLists :
          ConversationsOk(r, data)
    \/ \E r \in OfKind("conversations") : ConversationsFail(r)
    \/ \E r \in OfKind("documents") : \E data \in FewDocLists : DocumentsOk(r, data)
    \/ \E r \in OfKind("documents") : DocumentsFail(r)
    \/ ConnectDrive
    \/ \E r \in OfKind("connect") : ConnectOk(r)
    \/ \E r \in OfKind("connect") : ConnectFail(r)
    \/ \E which \in {"syncDrive", "syncCalendar"} : Sync(which)
    \/ \E r \in OfKind("syncDrive") \cup OfKind("syncCalendar") : SyncOk(r)
    \/ \E r \in OfKind("syncDrive") \cup OfKind("syncCalendar") : SyncFail(r)

SpecSync == Init /\ [][NextSync]_vars

\* the document list and its poll
NextPoll ==
    \/ \E r \in OfKind("user") : UserOk(r, FALSE)
    \/ \E r \in OfKind("conversations") : \E data \in FewConvLists :
          ConversationsOk(r, data)
    \/ \E r \in OfKind("documents") : \E data \in DocLists : DocumentsOk(r, data)
    \/ \E r \in OfKind("documents") : DocumentsFail(r)
    \/ Tick
    \/ UploadSuccess
    \/ Settle
    \/ \E id \in ConvIds : SelectConversation(id)
    \/ \E r \in OfKind("messages") : MessagesOk(r, <<>>)
    \/ NewChat
    \/ \E id \in DocIds : \E c \in BOOLEAN : DeleteDocument(id, c)
    \/ \E r \in OfKind("deleteDoc") : DeleteDocumentOk(r)
    \/ \E r \in OfKind("deleteDoc") : DeleteDocumentFail(r)

SpecPoll == Init /\ [][NextPoll]_vars

\* The interval keeps firing while it is alive (SF: the model accepts a tick
\* only while there is room for its request).  Every request is answered;
\* document requests, those made before the server settled and those made
\* after, are answered with a list again and again (SF: their failures do
\* not go on for ever).
LivePoll ==
    /\ SpecPoll
    /\ SF_vars(Tick)
    /\ \A e \in BOOLEAN :
          SF_vars(\E r \in OfKind("documents") : \E data \in DocLists :
                    r.early = e /\ DocumentsOk(r, data))
    /\ WF_vars(\E r \in OfKind("user") : UserOk(r, FALSE))
    /\ WF_vars(\E r \in OfKind("conversations") : \E data \in FewConvLists :
                  ConversationsOk(r, data))
    /\ WF_vars(\E r \in OfKind("messages") : MessagesOk(r, <<>>))
    /\ WF_vars(\E r \in OfKind("deleteDoc") : DeleteDocumentOk(r) \/ DeleteDocumentFail(r))

\* the document list when every document request is answered with a list:
\* the requests of the conversation effect, of the interval, of a finished
\* upload and of a failed delete, answered in any order
NextScope ==
    \/ \E r \in OfKind("user") : UserOk(r, FALSE)
    \/ \E r \in OfKind("conversations") : \E data \in FewConvLists :
          ConversationsOk(r, data)
    \/ \E r \in OfKind("documents") : \E data \in DocLists : DocumentsOk(r, data)
    \/ Tick
    \/ UploadSuccess
    \/ \E id \in ConvIds : SelectConversation(id)
    \/ \E r \in OfKind("messages") : MessagesOk(r, <<>>)
    \/ NewChat
    \/ \E id \in DocIds : \E c \in BOOLEAN : DeleteDocument(id, c)
    \/ \E r \in OfKind("deleteDoc") : DeleteDocumentOk(r)
    \/ \E r \in OfKind("deleteDoc") : DeleteDocumentFail(r)

SpecScope == Init /\ [][NextScope]_vars

\* selecting conversations, every messages request answered with the history
NextSelect ==
    \/ \E r \in OfKind("user") : \E b \in BOOLEAN : UserOk(r, b)
    \/ \E r \in OfKind("documents") : \E data \in FewDocLists : DocumentsOk(r, data)
    \/ \E r \in OfKind("conversations") : \E data \in ConvLists :
          ConversationsOk(r, data)
    \/ \E id \in ConvIds : SelectConversation(id)
    \/ \E r \in OfKind("messages") : \E data \in History(r.id) : MessagesOk(r, data)

SpecSelect == Init /\ [][NextSelect]_vars

\* ================================================================= claims
\* request r of the bag is answered in this step
Answered(r) == CopiesIn(r, net') < CopiesIn(r, net)
\* ... and its handler took the try branch (nothing is logged)
Succeeded(r) == Answered(r) /\ out'.log = ""
\* ... or the catch branch (every catch logs)
Failed(r) == Answered(r) /\ out'.log # ""
\* a request of this shape is issued in this step
Issued(q) == CopiesIn(q, net') = CopiesIn(q, net) + 1

\* C1 (as claimed): a sendMessage call with non-blank input appends one user
\* entry carrying the input at once; when its request completes exactly one
\* assistant entry is appended, and the user entry of the call sits before
\* that assistant entry in the list.
C1_UserThenAssistant ==
    [][ /\ \A q \in { [kind |-> "chat", query |-> input, conv |-> conversationId] } :
            Issued(q) => messages' = Append(messages, UserMsg(input))
        /\ \A r \in OfKind("chat") :
            Answered(r) =>
              /\ Len(messages') = Len(messages) + 1
              /\ messages'[Len(messages')].role = "assistant"
              /\ \E i \in 1..Len(messages) : messages'[i] = UserMsg(r.query)
      ]_vars

\* C2: when a messages request for conversation id succeeds, in that step the
\* message list becomes a list the server returns for id and id becomes the
\* active conversation.
C2_SelectLoads ==
    [][ \A r \in OfKind("messages") :
          Succeeded(r) => messages' \in History(r.id) /\ conversationId' = r.id
      ]_vars

C2_Witness ==
    /\ conversationId = 1
    /\ messages \in History(1)
    /\ OfKind("messages") = {}

\* C3 (as claimed): in the step in which the user confirms the delete of a
\* document (the DELETE request is issued), the document leaves the visible
\* list, before any response has arrived.
C3_RemovedAtOnce ==
    [][ \A id \in DocIds :
          Issued([kind |-> "deleteDoc", id |-> id, conv |-> conversationId])
            => ~Shown(documents', id)
      ]_vars

\* the requests of kind k in bag b, counted with their copies
KindCount(b, k) ==
    LET rs == { r \in BagToSet(b) : r.kind = k }
    IN  BagCardinality([r \in rs |-> b[r]])

C5_OnePollIffPending ==
    LET polling == \E i \in 1..Len(documents) :
                      documents[i].status = "pending" \/ documents[i].status = "processing"
    IN  Len(intervals) = IF polling THEN 1 ELSE 0

\* a second pending answer has replaced the interval of the first
C5_Witness ==
    /\ Len(intervals) = 1
    /\ intervals[1] # Null
    /\ \E i \in 1..Len(documents) : documents[i].status = "processing"

\* order-preserving sub-list
RECURSIVE IsSubList(_, _)
IsSubList(s, t) ==
    IF s = <<>> THEN TRUE
    ELSE IF t = <<>> THEN FALSE
    ELSE IF Head(s) = Head(t) THEN IsSubList(Tail(s), Tail(t))
    ELSE IsSubList(s, Tail(t))

\* C8: the visible conversation list and the visible document list are
\* order-preserving sub-lists of the last server response applied to them.
C8_ServerOrderKept ==
    /\ IsSubList(conversations, convResp)
    /\ IsSubList(documents, docResp)

\* a document was deleted out of a list of three and a conversation out of
\* a list of two
C8_Witness ==
    /\ Len(docResp) = 3
    /\ Len(documents) = 2
    /\ Len(convResp) = 2
    /\ Len(conversations) = 1

\* C6: once the server reports no document pending or processing and
\* requests are answered, the poll interval is eventually cleared for good,
\* so no further timer-driven fetch is issued, also when answers of earlier
\* polls arrive late.
C6_PollStops == <>[](serverSettled => intervals = <<>>)

\* the server has settled and the interval is cleared while the answer to a
\* request made before the server settled is still to arrive
C6_Witness ==
    /\ serverSettled
    /\ intervals = <<>>
    /\ documents # <<>>
    /\ \E r \in OfKind("documents") : r.early

\* C7 (as claimed): every failed request is shown to the user, in an alert
\* or as inline content of the view.
C7_EveryFailureShown ==
    [][ \A r \in InFlight :
          Failed(r) => out'.alert # "" \/ messages' = Append(messages, ErrorMsg)
      ]_vars

Alerting == {"connect", "deleteDoc", "deleteConv", "syncDrive", "syncCalendar"}
Silent == {"user", "conversations", "documents", "messages"}

\* C7 (amended): every failed request is logged; a failed connect, delete or
\* sync raises an alert, a failed send appends the inline error entry, and a
\* failed fetch of the user, the conversations, the documents or the messages
\* raises no alert and leaves the view as it was.
C7_FailureShownOrLogged ==
    [][ \A r \in InFlight :
          Failed(r) =>
            /\ r.kind \in Alerting => out'.alert # ""
            /\ r.kind = "chat" =>
                  out'.alert = "" /\ messages' = Append(messages, ErrorMsg)
            /\ r.kind \in Silent =>
                  /\ out'.alert = ""
                  /\ UNCHANGED << input, messages, loading, conversationId, chatTitle,
                                  conversations, documents, isDriveConnected, syncing >>
      ]_vars

\* a failed fetch of the documents has just been logged and nothing else
C7_Witness ==
    /\ out.log = "Failed to fetch documents"
    /\ out.alert = ""

\* C9: when a chat request fails, the fixed error entry without sources is
\* appended behind the entries already there, conversationId and the
\* conversation list stay as they are and loading becomes false.
C9_FailedSend ==
    [][ \A r \in OfKind("chat") :
          Failed(r) =>
            /\ messages' = Append(messages,
                  [role |-> "assistant", content |-> ErrorText, sources |-> <<>>])
            /\ conversationId' = conversationId
            /\ conversations' = conversations
            /\ loading' = FALSE
      ]_vars

\* a send has just failed in a thread that still shows its user entry
C9_Witness ==
    /\ out.log = "Chat error"
    /\ Len(messages) = 2
    /\ messages[1].role = "user"
    /\ messages[2].content = ErrorText
    /\ ~loading

\* C10 (as claimed): when the delete of conversation c succeeds, c leaves the
\* list and is not the active conversation afterwards; the view is reset when
\* c is on screen at that moment and left untouched otherwise.
C10_DeletedNotActive ==
    [][ \A r \in OfKind("deleteConv") :
          Succeeded(r) =>
            /\ ~Shown(conversations', r.id)
            /\ conversationId' # r.id
            /\ IF conversationId = r.id
               THEN conversationId' = Null /\ messages' = <<>> /\ chatTitle' = <<>>
               ELSE UNCHANGED << conversationId, messages, chatTitle >>
      ]_vars

\* C11 (as claimed): whenever no request is in flight, the visible document
\* list is the answer to a document request made for the active conversation
\* (the unscoped request when conversationId is null), whatever the order of
\* the answers.
C11_DocumentsScoped ==
    net = EmptyBag => docScope = conversationId

\* C12: when a send made with conversationId null succeeds, either the answer
\* carries a conversation_id, which becomes the active conversation, and
\* exactly one refetch of the conversation list is issued, or it carries
\* none and conversationId stays and no refetch is issued; a successful send
\* made in an existing conversation issues no refetch of the conversations.
C12_NewChatAdoptsId ==
    [][ \A r \in OfKind("chat") :
          Succeeded(r) =>
            IF r.conv = Null
            THEN \/ /\ conversationId' # Null
                    /\ KindCount(net', "conversations")
                          = KindCount(net, "conversations") + 1
                 \/ /\ conversationId' = conversationId
                    /\ KindCount(net', "conversations")
                          = KindCount(net, "conversations")
            ELSE KindCount(net', "conversations") = KindCount(net, "conversations")
      ]_vars

\* the answer to the first send of a new chat has just named conversation 2:
\* it is active, the thread holds the question and the answer, and the
\* refetch of the conversations is in flight
C12_Witness ==
    /\ conversationId = 2
    /\ Len(messages) = 2
    /\ messages[1].role = "user"
    /\ messages[2] = Msg("assistant", <<"o", "k">>, << <<"s">> >>)
    /\ ~loading
    /\ conversations = <<Conv(1)>>
    /\ CopiesIn(ConvsReq, net) = 1

\* C13: a sendMessage call with empty or whitespace-only input issues no
\* request and leaves messages, input, loading and conversationId unchanged.
C13_BlankSendNoOp ==
    [][ (Trim(input) = <<>> /\ \E button \in BOOLEAN : SendMessage(button))
          => UNCHANGED << net, messages, input, loading, conversationId >>
      ]_vars

\* the input holds one blank while a send is pending: Enter calls
\* sendMessage, which returns at once
C13_Witness ==
    /\ input = <<Blank>>
    /\ Trim(input) = <<>>
    /\ loading
    /\ Len(messages) = 1
    /\ KindCount(net, "chat") = 1
    /\ ENABLED SendMessage(FALSE)

\* C14: when a messages request fails, the message list, the active
\* conversation and the chat title are left as they are: the thread on
\* screen is still the one shown when the row was clicked.
C14_FailedLoadKeepsThread ==
    [][ \A r \in OfKind("messages") :
          Failed(r) => UNCHANGED << messages, conversationId, chatTitle >>
      ]_vars

\* the load of another conversation has just failed while conversation 1 is
\* open with its messages and its heading
C14_Witness ==
    /\ out.log = "Failed to fetch messages"
    /\ conversationId = 1
    /\ messages \in History(1)
    /\ chatTitle = <<"a", Blank, "b", Blank, "c", Blank, "d", Blank, "e">>

\* C15 (as claimed): when the answer to a send arrives, the thread on screen
\* is the one the send was made from: it still holds the user entry of that
\* send, and the answer changes conversationId only when the conversation on
\* screen is the one the message was sent to.
C15_ReplyInOwnThread ==
    [][ \A r \in OfKind("chat") :
          Succeeded(r) =>
            /\ \E i \in 1..Len(messages) : messages[i] = UserMsg(r.query)
            /\ conversationId' # conversationId => conversationId = r.conv
      ]_vars

\* C16 (as claimed): loading is true exactly when at least one chat request
\* is in flight.
C16_LoadingTracksChat ==
    loading <=> KindCount(net, "chat") > 0

\* C17 (as claimed): once every messages request has been answered, the
\* active conversation is the one selected last and the thread is its
\* history, whatever the order of the answers.
C17_LastSelectionWins ==
    (selected # Null /\ OfKind("messages") = {})
        => conversationId = selected /\ messages \in History(selected)

\* C18: at most one sync request, drive or calendar, is in flight, and
\* syncing is true exactly while one is; so syncing is false again as soon
\* as the request is answered, with a result or with an error.
C18_OneSyncAtATime ==
    LET n == KindCount(net, "syncDrive") + KindCount(net, "syncCalendar")
    IN  n <= 1 /\ (syncing <=> n = 1)

\* a calendar sync is running: both buttons are disabled, and another
\* request is in flight beside it
C18_Witness ==
    /\ syncing
    /\ isDriveConnected
    /\ KindCount(net, "syncCalendar") = 1
    /\ BagCardinality(net) = 2

====
